---- MODULE Spec2Model ----
(***************************************************************************)
(* The DuckDB dialect exporter of codemirror-sql                           *)
(* (src/dialects/duckdb/spec_duckdb.py): the catalog queries, the          *)
(* exclusion-prefix filter, the function selector and the two JSON         *)
(* writes, as a state machine over the notebook's cells.                   *)
(*                                                                         *)
(* A string is a sequence of one-character strings, so that LIKE, the      *)
(* SQL literal, starts_with, split and strip are computed character by     *)
(* character.  An optional value (SQL NULL, Python None) is a sequence of  *)
(* length 0 (absent) or 1 (present).                                       *)
(***************************************************************************)
EXTENDS Integers, Sequences, FiniteSets, TLC

VARIABLES
    catalog,      \* the DuckDB catalog views the queries read
    EXCLUDED,     \* the value of the cell constant EXCLUDED_KEYWORDS
    mode,         \* mo.app_meta().mode: "script" or "edit"
    args,         \* parser.parse_args(): [savepath |-> string]
    today,        \* the date today() reports
    pc,           \* the cell that runs next, or "done" / "failed"
    functions,    \* result of the functions query (rows), cell at line 116
    df,           \* result of the keywords query (one row), cell at line 228
    form,         \* the form: [value |-> optional string]
    fn_dict,      \* the function dictionary, cell at line 326
    fs,           \* the filesystem: path -> [kind, data]
    num_keywords, \* the two counts the form cell computes (0 before it ran)
    num_types,
    err,          \* the error that stopped the last cell run ("" when none)
    budget        \* submissions and restarts still to come

vars == <<catalog, EXCLUDED, mode, args, today, pc, functions, df, form,
          fn_dict, fs, num_keywords, num_types, err, budget>>

----------------------------------------------------------------------------
(* Optional values *)

Null == <<>>

Some(v) == <<v>>

IsNull(o) == Len(o) = 0

Val(o) == o[1]

----------------------------------------------------------------------------
(* Strings and their byte order (DuckDB's default binary collation,        *)
(* Python's str comparison): the characters the model uses, ascending.     *)

CharOrder ==
    << " ", "%", "'", ".", "/", "P", "X", "_",
       "a", "b", "c", "d", "e", "f", "g", "h", "i", "j", "k", "l", "m",
       "n", "o", "p", "q", "r", "s", "t", "u", "v", "w", "x", "y", "z" >>

OrdOf == [c \in {CharOrder[i] : i \in 1..Len(CharOrder)} |->
             CHOOSE i \in 1..Len(CharOrder) : CharOrder[i] = c]

Ord(c) == OrdOf[c]

RECURSIVE StrLess(_, _)
StrLess(a, b) ==
    IF Len(b) = 0 THEN FALSE
    ELSE IF Len(a) = 0 THEN TRUE
    ELSE IF a[1] = b[1] THEN StrLess(Tail(a), Tail(b))
    ELSE Ord(a[1]) < Ord(b[1])

StrLeq(a, b) == a = b \/ StrLess(a, b)

\* str.startswith / polars str.starts_with: a literal, case-sensitive prefix
StartsWith(s, p) == Len(p) <= Len(s) /\ SubSeq(s, 1, Len(p)) = p

\* the ascending sequence of the elements of a finite set of strings
RECURSIVE SortedSeq(_)
SortedSeq(S) ==
    IF S = {} THEN <<>>
    ELSE LET m == CHOOSE x \in S : \A y \in S : StrLeq(x, y)
         IN <<m>> \o SortedSeq(S \ {m})

\* sep.join(parts)
RECURSIVE Join(_, _)
Join(parts, sep) ==
    IF Len(parts) = 0 THEN <<>>
    ELSE IF Len(parts) = 1 THEN parts[1]
    ELSE parts[1] \o sep \o Join(Tail(parts), sep)

\* str.split(sep) for a one-character separator
RECURSIVE Split(_, _)
Split(s, sep) ==
    IF \A i \in 1..Len(s) : s[i] # sep THEN <<s>>
    ELSE LET k == CHOOSE i \in 1..Len(s) :
                     s[i] = sep /\ \A j \in 1..(i - 1) : s[j] # sep
         IN <<SubSeq(s, 1, k - 1)>> \o Split(SubSeq(s, k + 1, Len(s)), sep)

Range(q) == {q[i] : i \in 1..Len(q)}

----------------------------------------------------------------------------
(* SQL as DuckDB evaluates it *)

\* s LIKE pat: % matches any run of characters, _ any one character, every
\* other character itself; case-sensitive; there is no escape character
\* unless an ESCAPE clause names one.
RECURSIVE Like(_, _)
Like(s, pat) ==
    IF Len(pat) = 0 THEN Len(s) = 0
    ELSE IF pat[1] = "%"
         THEN Like(s, Tail(pat)) \/ (Len(s) > 0 /\ Like(Tail(s), pat))
    ELSE IF pat[1] = "_"
         THEN Len(s) > 0 /\ Like(Tail(s), Tail(pat))
    ELSE Len(s) > 0 /\ s[1] = pat[1] /\ Like(Tail(s), Tail(pat))

\* The value of the quoted literal text lit (which starts with a quote): two
\* quotes inside stand for one quote, a single quote ends the literal.  The
\* value is present when the literal ends exactly at the end of lit; a
\* literal that ends earlier (text is left over) or never ends is an error.
RECURSIVE Unquote(_, _)
Unquote(rest, acc) ==
    IF Len(rest) = 0 THEN Null
    ELSE IF rest[1] # "'" THEN Unquote(Tail(rest), acc \o <<rest[1]>>)
    ELSE IF Len(rest) >= 2 /\ rest[2] = "'"
         THEN Unquote(Tail(Tail(rest)), acc \o <<"'">>)
    ELSE IF Len(rest) = 1 THEN Some(acc)
    ELSE Null

LiteralValue(lit) == Unquote(Tail(lit), <<>>)

\* MAX over a set of strings: NULL over no (non-NULL) value
MaxStr(S) ==
    IF S = {} THEN Null
    ELSE Some(CHOOSE x \in S : \A y \in S : StrLeq(y, x))

\* the order of VARCHAR[] values: element by element, a proper prefix first
RECURSIVE ListLess(_, _)
ListLess(a, b) ==
    IF Len(b) = 0 THEN FALSE
    ELSE IF Len(a) = 0 THEN TRUE
    ELSE IF a[1] = b[1] THEN ListLess(Tail(a), Tail(b))
    ELSE StrLess(a[1], b[1])

ListLeq(a, b) == a = b \/ ListLess(a, b)

\* MIN in place of MAX
MinList(S) ==
    IF S = {} THEN Null
    ELSE Some(CHOOSE x \in S : \A y \in S : ListLeq(x, y))

\* MAX over a set of lists
MaxList(S) ==
    IF S = {} THEN Null
    ELSE Some(CHOOSE x \in S : \A y \in S : ListLeq(y, x))

\* list[1]: NULL for a NULL list and for an index past the end
ListFirst(l) ==
    IF IsNull(l) THEN Null
    ELSE IF Len(Val(l)) = 0 THEN Null
    ELSE Some(Val(l)[1])

\* STRING_AGG(DISTINCT x, ' ' ORDER BY x) over the values S: NULL over no row
StringAgg(S) ==
    IF S = {} THEN Null ELSE Some(Join(SortedSeq(S), <<" ">>))

----------------------------------------------------------------------------
(* The cells *)

EXCLUDED_KEYWORDS ==
    << <<"_", "_", "i", "n", "t", "e", "r", "n", "a", "l">>,
       <<"i", "c", "u">>,
       <<"h", "a", "s", "_">>,
       <<"p", "g", "_">>,
       <<"a", "l", "l", "o", "c", "a", "t", "o", "r">> >>

included_functions ==
    << <<"a", "r", "r", "a", "y">>,
       <<"c", "o", "u", "n", "t">>,
       <<"s", "t", "r", "u", "c", "t">>,
       <<"c", "o", "n", "c", "a", "t">>,
       <<"c", "a", "s", "t">>,
       <<"c", "o", "m", "b", "i", "n", "e">>,
       <<"c", "o", "n", "t", "a", "i", "n", "s">>,
       <<"d", "a", "t", "e">>,
       <<"d", "a", "y">>,
       <<"h", "i", "s", "t", "o", "g", "r", "a", "m">>,
       <<"g", "e", "n", "e", "r", "a", "t", "e", "_", "s", "e", "r", "i", "e", "s">>,
       <<"j", "s", "o", "n">>,
       <<"s", "t", "r", "i", "n", "g">>,
       <<"s", "u", "b", "s", "t", "r", "i", "n", "g">>,
       <<"t", "o", "_">>,
       <<"t", "r", "i", "m">> >>

\* The WHERE clause: one "<column> NOT LIKE '<kw>%'" per excluded keyword, in
\* order.  The sequence stands for the " AND "-joined text, the empty
\* sequence for the empty string; each literal is the text between and
\* including the quotes, with kw pasted in unescaped.
filter_keywords_query(column, excluded) ==
    [i \in 1..Len(excluded) |->
        [column |-> column,
         literal |-> <<"'">> \o excluded[i] \o <<"%", "'">>]]

\* "WHERE <clause>" parses: the clause is not empty and every literal is one
\* well-formed string literal
WhereParses(where) ==
    /\ Len(where) > 0
    /\ \A i \in 1..Len(where) : ~IsNull(LiteralValue(where[i].literal))

\* the row passes every NOT LIKE of the clause
WhereKeeps(where, row) ==
    \A i \in 1..Len(where) :
        ~Like(row[where[i].column], Val(LiteralValue(where[i].literal)))

\* The functions query (lines 117-153): the overload rows that pass the
\* WHERE clause, one output row per function_name, ordered by function_name.
\* The ARRAY_AGG columns and alias_of are not read by any later cell.
FunctionsQuery(cat, excluded) ==
    LET where == filter_keywords_query("function_name", excluded)
        rows == SelectSeq(cat.functions, LAMBDA r : WhereKeeps(where, r))
        names == {rows[i].function_name : i \in 1..Len(rows)}
        Group(n) == {rows[i] : i \in {j \in 1..Len(rows) :
                                          rows[j].function_name = n}}
        sorted == SortedSeq(names)
    IN  IF ~WhereParses(where) THEN Null
        ELSE Some([k \in 1..Len(sorted) |->
                [function_name |-> sorted[k],
                 description |->
                     MaxStr({Val(r.description) :
                             r \in {g \in Group(sorted[k]) :
                                        ~IsNull(g.description)}}),
                 example |->
                     ListFirst(MaxList({Val(r.examples) :
                             r \in {g \in Group(sorted[k]) :
                                        ~IsNull(g.examples)}}))]])

duckdb_version == "v1.3.2"

\* stg_keywords (lines 232-256): the UNION ALL of the four catalog views
stg_keywords(cat) ==
    {[keyword_group |-> "duckdb_keywords", keyword |-> k] : k \in cat.keywords}
    \cup {[keyword_group |-> "duckdb_settings", keyword |-> k] :
              k \in cat.settings}
    \cup {[keyword_group |-> "duckdb_functions",
           keyword |-> cat.functions[i].function_name] :
              i \in 1..Len(cat.functions)}
    \cup {[keyword_group |-> "duckdb_types", keyword |-> k] : k \in cat.types}

\* all_keywords (lines 257-263)
all_keywords(cat, excluded) ==
    LET where == filter_keywords_query("keyword", excluded)
    IN  StringAgg({r.keyword : r \in {s \in stg_keywords(cat) :
                                          WhereKeeps(where, s)}})

\* builtin_keywords (lines 264-271)
builtin_keywords(cat) ==
    StringAgg({r.keyword : r \in {s \in stg_keywords(cat) :
        s.keyword_group \in {"duckdb_keywords", "duckdb_settings"}}})

\* duckdb_types_str (lines 272-277)
duckdb_types_str(cat) == StringAgg(cat.types)

\* The keywords query (lines 229-289): one row, or an error
KeywordsQuery(cat, excluded, date) ==
    IF ~WhereParses(filter_keywords_query("keyword", excluded)) THEN Null
    ELSE Some([duckdb_version |-> duckdb_version,
               last_updated |-> date,
               keywords |-> all_keywords(cat, excluded),
               builtin |-> builtin_keywords(cat),
               types |-> duckdb_types_str(cat)])

\* the function selector (lines 347-354): prefix_filter and description != "";
\* a NULL description makes the comparison NULL and the row is dropped
prefix_filter(name) ==
    \E i \in 1..Len(included_functions) :
        StartsWith(name, included_functions[i])

\* Python's None != "" is True: a NULL description passes
DescriptionFilterNullPasses(description) ==
    IsNull(description) \/ Val(description) # <<>>

DescriptionFilter(description) ==
    ~IsNull(description) /\ Val(description) # <<>>

filtered_fn(fns) ==
    SelectSeq(fns, LAMBDA r : prefix_filter(r.function_name)
                              /\ DescriptionFilter(r.description))

\* fn_dict[key] = value on a dict kept as a sequence of entries in insertion
\* order: an existing key keeps its place and takes the new value
DictSet(d, key, value) ==
    IF \E i \in 1..Len(d) : d[i].key = key
    THEN [i \in 1..Len(d) |-> IF d[i].key = key
                              THEN [key |-> key, value |-> value] ELSE d[i]]
    ELSE Append(d, [key |-> key, value |-> value])

\* lines 357-362
RECURSIVE BuildFnDict(_, _)
BuildFnDict(rows, d) ==
    IF Len(rows) = 0 THEN d
    ELSE BuildFnDict(Tail(rows),
             DictSet(d, rows[1].function_name,
                     [description |-> rows[1].description,
                      example |-> rows[1].example]))

----------------------------------------------------------------------------
(* The filesystem.  A path string resolves, against the working directory,  *)
(* to the sequence of its non-empty components; fs maps every path the      *)
(* exporter can name to an entry.  A file's data is the sequence of         *)
(* documents written to it since it was last truncated.                     *)

Resolve(path) == SelectSeq(Split(path, "/"), LAMBDA c : Len(c) > 0)

Absent == [kind |-> "absent", data |-> <<>>]

Directory == [kind |-> "dir", data |-> <<>>]

Parent(p) == SubSeq(p, 1, Len(p) - 1)

Prefixes(p) == {SubSeq(p, 1, k) : k \in 1..Len(p)}

\* the working directory (the empty path) is a directory
IsDir(f, p) == Len(p) = 0 \/ f[p].kind = "dir"

\* os.path.exists
Exists(f, p) == Len(p) = 0 \/ f[p].kind # "absent"

\* the OS error of open(p, "w") / File::create(p), "" when it succeeds
OpenError(f, p) ==
    IF \E q \in Prefixes(Parent(p)) : f[q].kind = "file" THEN "ENOTDIR"
    ELSE IF ~IsDir(f, Parent(p)) THEN "ENOENT"
    ELSE IF f[p].kind = "dir" THEN "EISDIR"
    ELSE ""

\* open(p, "a"): the document lands after what the file already holds
WriteAppend(f, p, doc) ==
    [f EXCEPT ![p] = [kind |-> "file", data |-> f[p].data \o <<doc>>]]

\* open(p, "w"), one document written, close: the file is created or
\* truncated and then holds the document alone
WriteWhole(f, p, doc) ==
    [f EXCEPT ![p] = [kind |-> "file", data |-> <<doc>>]]

\* the OS error of os.makedirs(p) for a p that does not exist
MakeDirsError(f, p) ==
    IF \E q \in Prefixes(p) : f[q].kind = "file" THEN "ENOTDIR" ELSE ""

\* os.makedirs(p): p and every missing ancestor become directories
MakeDirs(f, p) ==
    [q \in DOMAIN f |-> IF q \in Prefixes(p) /\ f[q].kind = "absent"
                        THEN Directory ELSE f[q]]

\* df.select(pl.exclude("builtin")).write_json: the row without builtin
KeywordsDocument(row) ==
    [kind |-> "keywords",
     duckdb_version |-> row.duckdb_version,
     last_updated |-> row.last_updated,
     keywords |-> row.keywords,
     types |-> row.types,
     functions |-> <<>>]

\* json.dump(fn_dict, f, indent=4)
FunctionsDocument(d) ==
    [kind |-> "functions",
     duckdb_version |-> "",
     last_updated |-> 0,
     keywords |-> Null,
     types |-> Null,
     functions |-> d]

\* write_to_file(df, keywords_path) and then, when it did not raise,
\* save_to_json(fn_dict, functions_path): the filesystem and the error after
WriteBoth(f, row, d, keywords_path, functions_path) ==
    LET e1 == OpenError(f, Resolve(keywords_path))
        f1 == WriteWhole(f, Resolve(keywords_path), KeywordsDocument(row))
        e2 == OpenError(f1, Resolve(functions_path))
        f2 == WriteWhole(f1, Resolve(functions_path), FunctionsDocument(d))
    IN  IF e1 # "" THEN [fs |-> f, err |-> e1]
        ELSE IF e2 # "" THEN [fs |-> f1, err |-> e2]
        ELSE [fs |-> f2, err |-> ""]

\* str.strip(): leading and trailing whitespace removed
RECURSIVE LStrip(_)
LStrip(s) == IF Len(s) > 0 /\ s[1] = " " THEN LStrip(Tail(s)) ELSE s

RECURSIVE RStrip(_)
RStrip(s) ==
    IF Len(s) > 0 /\ s[Len(s)] = " " THEN RStrip(SubSeq(s, 1, Len(s) - 1))
    ELSE s

Strip(s) == RStrip(LStrip(s))

FunctionsJson ==
    <<"/", "f", "u", "n", "c", "t", "i", "o", "n", "s", ".", "j", "s", "o", "n">>

KeywordsJson ==
    <<"/", "k", "e", "y", "w", "o", "r", "d", "s", ".", "j", "s", "o", "n">>

\* the script branch (lines 85-89)
ScriptExport(f, row, d, savepath) ==
    WriteBoth(f, row, d, savepath, savepath \o FunctionsJson)

\* the body of the interactive branch (lines 93-97)
InteractiveExport(f, row, d, savepath) ==
    LET p == Resolve(savepath)
        f0 == IF Exists(f, p) THEN f ELSE MakeDirs(f, p)
    IN  IF ~Exists(f, p) /\ MakeDirsError(f, p) # ""
        THEN [fs |-> f, err |-> MakeDirsError(f, p)]
        ELSE WriteBoth(f0, row, d, savepath \o KeywordsJson,
                       savepath \o FunctionsJson)

\* the guard without strip()
FormGuardNoStrip(value) == ~IsNull(value) /\ Val(value) # <<>>

\* line 92
FormGuard(value) == ~IsNull(value) /\ Strip(Val(value)) # <<>>

----------------------------------------------------------------------------
(* Bounds and inputs *)

MaxRuns == 3          \* submissions and restarts after the first run

MaxDay == 2           \* the days a run can fall on: 1..MaxDay

MaxInitEntries == 3   \* files and directories present before the first run

MaxExcluded == 2      \* length of a generalised exclusion list

MaxFnRows == 2        \* rows of duckdb_functions() in a generated catalog

Select == <<"s", "e", "l", "e", "c", "t">>
Group == <<"g", "r", "o", "u", "p">>
PgCatalog == <<"p", "g", "_", "c", "a", "t", "a", "l", "o", "g">>
IcuCollations ==
    <<"i", "c", "u", "_", "c", "o", "l", "l", "a", "t", "i", "o", "n", "s">>
Hash == <<"h", "a", "s", "h">>
QuotedName == <<"'", "'", "a">>
PgUpper == <<"P", "g", "_", "x">>
PgLsn == <<"p", "g", "_", "l", "s", "n">>
Count == <<"c", "o", "u", "n", "t">>
Abs == <<"a", "b", "s">>

Has_ == <<"h", "a", "s", "_">>
Pg_ == <<"p", "g", "_">>
Icu == <<"i", "c", "u">>
OddQuote == <<"a", "'">>

\* prefixes an exclusion list is drawn from: three of the program's own, one
\* with a doubled quote and one with a single quote
PrefixPool == {Has_, Pg_, Icu, QuotedName, OddQuote}

RECURSIVE SeqsUpTo(_, _)
SeqsUpTo(S, n) ==
    IF n = 0 THEN {<<>>}
    ELSE LET shorter == SeqsUpTo(S, n - 1)
         IN shorter \cup {Append(q, x) : q \in shorter, x \in S}

PrefixLists == SeqsUpTo(PrefixPool, MaxExcluded) \cup {EXCLUDED_KEYWORDS}

FnRow(name, description, examples) ==
    [function_name |-> name, description |-> description,
     examples |-> examples]

Text(c) == <<c>>

\* catalogs for the exclusion filter: names spread over the four views
FilterCatalogs ==
    {[keywords |-> k, settings |-> s, functions |-> f, types |-> t] :
        k \in SUBSET {Select, Group},
        s \in SUBSET {PgCatalog, IcuCollations},
        f \in {<<>>, <<FnRow(Hash, Some(Text("d")), Null)>>,
               <<FnRow(QuotedName, Some(Text("d")), Null)>>,
               <<FnRow(Hash, Some(Text("d")), Null),
                 FnRow(QuotedName, Some(Text("d")), Null)>>},
        t \in {{PgUpper}, {PgUpper, PgLsn}}}

\* overload rows for the function selector
FnRowPool ==
    {FnRow(n, d, e) :
        n \in {Count, Abs},
        d \in {Null, Some(<<>>), Some(Text("d"))},
        e \in {Null, Some(<<>>), Some(<<Text("a")>>),
               Some(<<Text("b"), Text("a")>>)}}

SelectorCatalogs ==
    {[keywords |-> {Select}, settings |-> {}, functions |-> f,
      types |-> {PgUpper}] : f \in SeqsUpTo(FnRowPool, MaxFnRows)}

BaseCatalog ==
    [keywords |-> {Select, Group}, settings |-> {PgCatalog},
     functions |-> <<FnRow(Count, Some(Text("d")), Some(<<Text("a")>>))>>,
     types |-> {PgUpper}]

DefaultSavepath == <<"t", "e", "m", "p", ".", "j", "s", "o", "n">>

Out == <<"o", "u", "t">>

\* values of --savepath: the default and a path inside a folder
SavepathPool == {DefaultSavepath, Out \o <<"/">> \o DefaultSavepath}

\* values a form submission can carry
FormValues ==
    {Null, Some(<<>>), Some(<<" ">>), Some(Out), Some(<<"a", "/", "b">>)}

PathUniverse ==
    UNION {Prefixes(Resolve(s \o FunctionsJson)) : s \in SavepathPool}
    \cup UNION {Prefixes(Resolve(Val(v) \o FunctionsJson))
                \cup Prefixes(Resolve(Val(v) \o KeywordsJson)) :
                    v \in {w \in FormValues : FormGuard(w)}}

OldDocument ==
    [kind |-> "old", duckdb_version |-> "", last_updated |-> 0,
     keywords |-> Null, types |-> Null, functions |-> <<>>]

OldFile == [kind |-> "file", data |-> <<OldDocument>>]

EmptyFS == [p \in PathUniverse |-> Absent]

\* the filesystems a run can start from: at most MaxInitEntries entries,
\* every entry inside a directory, files holding an earlier document
InitialFS ==
    UNION {
        {[p \in PathUniverse |->
             IF p \notin present THEN Absent
             ELSE IF p \in dirs THEN Directory ELSE OldFile] :
            dirs \in {D \in SUBSET present :
                        \A p \in present : Len(p) > 1 => Parent(p) \in D}} :
        present \in {S \in SUBSET PathUniverse :
                        /\ Cardinality(S) <= MaxInitEntries
                        /\ \A p \in S : Prefixes(p) \subseteq S}}

Modes == {"script", "edit"}

----------------------------------------------------------------------------
(* The state machine *)

Start(cat, excluded, m, savepath, f, b) ==
    /\ catalog = cat
    /\ EXCLUDED = excluded
    /\ mode = m
    /\ args = [savepath |-> savepath]
    /\ today = 1
    /\ pc = "functions"
    /\ functions = Null
    /\ df = Null
    /\ form = [value |-> Null]
    /\ fn_dict = Null
    /\ fs = f
    /\ num_keywords = 0
    /\ num_types = 0
    /\ err = ""
    /\ budget = b

\* the program as written, on one catalog, from any starting filesystem
Init ==
    \E m \in Modes, f \in InitialFS :
        \E savepath \in IF m = "script" THEN SavepathPool
                        ELSE {DefaultSavepath} :
            Start(BaseCatalog, EXCLUDED_KEYWORDS, m, savepath, f, MaxRuns)

\* the exclusion filter on generated catalogs and exclusion lists
InitFilter ==
    \E cat \in FilterCatalogs, excluded \in PrefixLists, m \in Modes :
        Start(cat, excluded, m, DefaultSavepath, EmptyFS, 1)

\* the function selector on generated function catalogs
InitSelector ==
    \E cat \in SelectorCatalogs, m \in Modes :
        Start(cat, EXCLUDED_KEYWORDS, m, DefaultSavepath, EmptyFS, 1)

\* a cell raised: the cells that need its result do not run
Fail(e) ==
    /\ pc' = "failed"
    /\ err' = e

\* the cell at line 116
FunctionsCell ==
    /\ pc = "functions"
    /\ LET q == FunctionsQuery(catalog, EXCLUDED)
       IN  IF IsNull(q)
           THEN Fail("ParserException") /\ UNCHANGED functions
           ELSE functions' = q /\ pc' = "df" /\ UNCHANGED err
    /\ UNCHANGED <<catalog, EXCLUDED, mode, args, today, df, form, fn_dict,
                   fs, num_keywords, num_types, budget>>

\* the cell at line 228
KeywordsCell ==
    /\ pc = "df"
    /\ LET q == KeywordsQuery(catalog, EXCLUDED, today)
       IN  IF IsNull(q)
           THEN Fail("ParserException") /\ UNCHANGED df
           ELSE df' = q /\ pc' = "form" /\ UNCHANGED err
    /\ UNCHANGED <<catalog, EXCLUDED, mode, args, today, functions, form,
                   fn_dict, fs, num_keywords, num_types, budget>>

\* the cell at line 294: None has no split
FormCell ==
    /\ pc = "form"
    /\ IF IsNull(Val(df).keywords) \/ IsNull(Val(df).types)
       THEN Fail("AttributeError") /\ UNCHANGED <<num_keywords, num_types, form>>
       ELSE /\ num_keywords' = Len(Split(Val(Val(df).keywords), " "))
            /\ num_types' = Len(Split(Val(Val(df).types), " "))
            /\ form' = [value |-> Null]
            /\ pc' = "fn_dict"
            /\ UNCHANGED err
    /\ UNCHANGED <<catalog, EXCLUDED, mode, args, today, functions, df,
                   fn_dict, fs, budget>>

\* the cell at line 326
FnDictCell ==
    /\ pc = "fn_dict"
    /\ fn_dict' = Some(BuildFnDict(filtered_fn(Val(functions)), <<>>))
    /\ pc' = "export"
    /\ UNCHANGED <<catalog, EXCLUDED, mode, args, today, functions, df, form,
                   fs, num_keywords, num_types, err, budget>>

\* the cell at line 75 in script mode: the process ends with the run
ExportScript ==
    /\ pc = "export"
    /\ mode = "script"
    /\ LET r == ScriptExport(fs, Val(df), Val(fn_dict), args.savepath)
       IN  /\ fs' = r.fs
           /\ err' = r.err
           /\ pc' = IF r.err = "" THEN "done" ELSE "failed"
    /\ UNCHANGED <<catalog, EXCLUDED, mode, args, today, functions, df, form,
                   fn_dict, num_keywords, num_types, budget>>

\* the cell at line 75 in the notebook: an error is shown and the notebook
\* stays up
ExportInteractive ==
    /\ pc = "export"
    /\ mode # "script"
    /\ IF FormGuard(form.value)
       THEN LET r == InteractiveExport(fs, Val(df), Val(fn_dict),
                                       Val(form.value))
            IN  fs' = r.fs /\ err' = r.err
       ELSE UNCHANGED <<fs, err>>
    /\ pc' = "done"
    /\ UNCHANGED <<catalog, EXCLUDED, mode, args, today, functions, df, form,
                   fn_dict, num_keywords, num_types, budget>>

\* the form is submitted with value v: the export cell runs again
Submit(v) ==
    /\ pc = "done"
    /\ mode # "script"
    /\ budget > 0
    /\ form' = [value |-> v]
    /\ pc' = "export"
    /\ err' = ""
    /\ budget' = budget - 1
    /\ UNCHANGED <<catalog, EXCLUDED, mode, args, today, functions, df,
                   fn_dict, fs, num_keywords, num_types>>

\* the script is run again, or the notebook restarted, on day d: every cell
\* runs again on the same catalog, arguments and filesystem
Restart(d) ==
    /\ pc \in {"done", "failed"}
    /\ budget > 0
    /\ today' = d
    /\ pc' = "functions"
    /\ functions' = Null
    /\ df' = Null
    /\ form' = [value |-> Null]
    /\ fn_dict' = Null
    /\ num_keywords' = 0
    /\ num_types' = 0
    /\ err' = ""
    /\ budget' = budget - 1
    /\ UNCHANGED <<catalog, EXCLUDED, mode, args, fs>>

Next ==
    \/ FunctionsCell
    \/ KeywordsCell
    \/ FormCell
    \/ FnDictCell
    \/ ExportScript
    \/ ExportInteractive
    \/ \E v \in FormValues : Submit(v)
    \/ \E d \in {today, today + 1} \cap (1..MaxDay) : Restart(d)

Spec == Init /\ [][Next]_vars

SpecFilter == InitFilter /\ [][Next]_vars

SpecSelector == InitSelector /\ [][Next]_vars

----------------------------------------------------------------------------
(* What the claims speak of *)

FunctionNames(cat) ==
    {cat.functions[i].function_name : i \in 1..Len(cat.functions)}

AllNames(cat) ==
    cat.keywords \cup cat.settings \cup FunctionNames(cat) \cup cat.types

\* the tokens of an exported string; a NULL string has none
TokensOf(text) == IF IsNull(text) THEN <<>> ELSE Split(Val(text), " ")

\* name starts, character for character, with a prefix of the list
LiterallyExcluded(name, prefixes) ==
    \E i \in 1..Len(prefixes) : StartsWith(name, prefixes[i])

OverloadRows(n) ==
    {catalog.functions[i] :
        i \in {j \in 1..Len(catalog.functions) :
                   catalog.functions[j].function_name = n}}

FirstOverloadRow(n) ==
    catalog.functions[CHOOSE i \in 1..Len(catalog.functions) :
        /\ catalog.functions[i].function_name = n
        /\ \A j \in 1..(i - 1) : catalog.functions[j].function_name # n]

ExampleLists(n) ==
    {Val(r.examples) : r \in {g \in OverloadRows(n) : ~IsNull(g.examples)}}

Entries == IF IsNull(fn_dict) THEN {} ELSE Range(Val(fn_dict))

\* every document held by a file
Documents == UNION {Range(fs[p].data) : p \in DOMAIN fs}

\* the run has a destination: script mode, or a form value that is present
\* and has a character other than a space
NonBlank(value) ==
    ~IsNull(value) /\ \E i \in 1..Len(Val(value)) : Val(value)[i] # " "

HasDestination == mode = "script" \/ NonBlank(form.value)

Folder == Resolve(Val(form.value))

KeywordsTarget ==
    IF mode = "script" THEN Resolve(args.savepath)
    ELSE Resolve(Val(form.value) \o KeywordsJson)

FunctionsTarget ==
    IF mode = "script" THEN Resolve(args.savepath \o FunctionsJson)
    ELSE Resolve(Val(form.value) \o FunctionsJson)

DestinationDir == IF mode = "script" THEN Parent(KeywordsTarget) ELSE Folder

ExportRan == pc \in {"done", "failed"} /\ ~IsNull(fn_dict)

FileOf(doc) == [kind |-> "file", data |-> <<doc>>]

\* a filesystem with every document's timestamp field blanked
NoTimestamps(f) ==
    [p \in DOMAIN f |->
        [kind |-> f[p].kind,
         data |-> [i \in 1..Len(f[p].data) |->
                      [f[p].data[i] EXCEPT !.last_updated = 0]]]]

----------------------------------------------------------------------------
(* The claims *)

\* C1 (as stated): whenever the keywords query has run, the tokens of the
\* keywords string are ascending and duplicate-free, each is a catalog name,
\* and every catalog name that does not literally start with a prefix of the
\* exclusion list (every character of a prefix, "_" included, matching only
\* itself) is among them.  That no token starts with a prefix is C2.
C1_KeywordsAreLiteralFilter ==
    ~IsNull(df) =>
        LET t == TokensOf(Val(df).keywords)
        IN  /\ \A i \in 1..(Len(t) - 1) : StrLess(t[i], t[i + 1])
            /\ Range(t) \subseteq AllNames(catalog)
            /\ \A n \in AllNames(catalog) :
                   ~LiterallyExcluded(n, EXCLUDED) => n \in Range(t)

\* C2 (as stated): for a non-empty exclusion list, no token of the keywords
\* string starts with a prefix of the list.
C2_NoTokenStartsWithPrefix ==
    (~IsNull(df) /\ Len(EXCLUDED) > 0) =>
        \A t \in Range(TokensOf(Val(df).keywords)) :
            ~LiterallyExcluded(t, EXCLUDED)

\* C3 (as stated): with an empty exclusion list no error state is reached,
\* the keywords string holds every catalog name and the functions query
\* returns every function name.
C3_EmptyListKeepsAll ==
    EXCLUDED = <<>> =>
        /\ err = ""
        /\ pc # "failed"
        /\ ~IsNull(df) =>
               TokensOf(Val(df).keywords) = SortedSeq(AllNames(catalog))
        /\ ~IsNull(functions) =>
               {r.function_name : r \in Range(Val(functions))} =
                   FunctionNames(catalog)

\* C4 (as stated): a script-mode run that starts with the parent directory
\* of --savepath present ends with both writes done: the keyword document at
\* the path and the function dictionary at <path>/functions.json.
C4_ScriptWritesBoth ==
    (mode = "script" /\ ExportRan /\ IsDir(fs, Parent(KeywordsTarget))) =>
        /\ pc = "done"
        /\ fs[KeywordsTarget].kind = "file"
        /\ fs[FunctionsTarget].kind = "file"

\* C5 (as stated): with the program's own EXCLUDED_KEYWORDS, no token of an
\* exported types string, no token of an exported keywords string and no key
\* of the function dictionary starts with an excluded prefix.
C5_ExportedNamesFiltered ==
    EXCLUDED = EXCLUDED_KEYWORDS =>
        /\ \A doc \in Documents :
               /\ \A t \in Range(TokensOf(doc.keywords)) :
                      ~LiterallyExcluded(t, EXCLUDED_KEYWORDS)
               /\ \A t \in Range(TokensOf(doc.types)) :
                      ~LiterallyExcluded(t, EXCLUDED_KEYWORDS)
               /\ \A e \in Range(doc.functions) :
                      ~LiterallyExcluded(e.key, EXCLUDED_KEYWORDS)
        /\ \A e \in Entries : ~LiterallyExcluded(e.key, EXCLUDED_KEYWORDS)

\* C6: every key of the function dictionary starts with a prefix of the
\* allow-list and has a description that is neither NULL nor empty, which
\* some overload row of that name carries; so a name with only NULL or empty
\* descriptions, and a name outside the allow-list, is never a key.
C6_KeysAllowedAndDescribed ==
    \A e \in Entries :
        /\ \E i \in 1..Len(included_functions) :
               StartsWith(e.key, included_functions[i])
        /\ ~IsNull(e.value.description)
        /\ Val(e.value.description) # <<>>
        /\ \E r \in OverloadRows(e.key) : r.description = e.value.description

\* C6, its case: the dictionary has a key, while the catalog also holds a
\* described function whose name is outside the allow-list.
C6_Witness ==
    /\ Entries # {}
    /\ \E r \in Range(catalog.functions) :
           /\ r.function_name = Abs
           /\ r.description = Some(Text("d"))

\* C7 (as stated): the example of a key is the first example of the first
\* overload row of that name in catalog order, NULL when that row has none.
C7_ExampleOfFirstRow ==
    \A e \in Entries :
        e.value.example = ListFirst(FirstOverloadRow(e.key).examples)

\* C7 (amended): the example of a key is the first element of the greatest
\* examples list among all the overload rows of that name, and NULL exactly
\* when no row of the name has a non-empty examples list.
C7_ExampleOfGreatestList ==
    \A e \in Entries :
        IF \A l \in ExampleLists(e.key) : Len(l) = 0
        THEN IsNull(e.value.example)
        ELSE /\ ~IsNull(e.value.example)
             /\ \E l \in ExampleLists(e.key) :
                    /\ Len(l) > 0
                    /\ l[1] = Val(e.value.example)
                    /\ \A l2 \in ExampleLists(e.key) : ListLeq(l2, l)

\* C7, its case: a key whose stored example comes from a later overload row,
\* not from the first one.
C7_Witness ==
    \E e \in Entries :
        /\ ~IsNull(e.value.example)
        /\ e.value.example # ListFirst(FirstOverloadRow(e.key).examples)

\* C8 (as stated): in both modes an export run never ends with a
\* missing-directory error, and a run that ends without error leaves the
\* destination directory in place.
C8_DestinationCreated ==
    (ExportRan /\ HasDestination) =>
        /\ err # "ENOENT"
        /\ err = "" => IsDir(fs, DestinationDir)

\* what C9 is stated with: the targets hold exactly this run's documents,
\* and the filesystem already holds this catalog's export at the targets
C9_TargetsHoldThisRun ==
    /\ \A p \in DOMAIN fs : fs[p].kind = "file" => Len(fs[p].data) = 1
    /\ (pc = "done" /\ err = "" /\ HasDestination) =>
           /\ fs[KeywordsTarget] = FileOf(KeywordsDocument(Val(df)))
           /\ fs[FunctionsTarget] = FileOf(FunctionsDocument(Val(fn_dict)))

C9_AlreadyExported ==
    /\ fs[KeywordsTarget].kind = "file"
    /\ fs[FunctionsTarget].kind = "file"
    /\ NoTimestamps(fs)[KeywordsTarget] =
           FileOf([KeywordsDocument(Val(df)) EXCEPT !.last_updated = 0])
    /\ fs[FunctionsTarget] = FileOf(FunctionsDocument(Val(fn_dict)))

\* C9: a file never holds more than the one document last written to it;
\* after a successful export each target file holds exactly the document of
\* this run, whatever it held before; and a successful run on a
\* filesystem that already holds this catalog's export at the same targets
\* changes nothing but the timestamp field.
C9_Idempotent ==
    /\ []C9_TargetsHoldThisRun
    /\ [][(pc = "export" /\ pc' = "done" /\ err' = "" /\ HasDestination
           /\ C9_AlreadyExported)
          => NoTimestamps(fs') = NoTimestamps(fs)]_vars

\* C9, its case: a submitted export is about to run on a filesystem that
\* holds an earlier run's export to the same folder, written on another day.
C9_Witness ==
    /\ pc = "export"
    /\ NonBlank(form.value)
    /\ C9_AlreadyExported
    /\ fs[KeywordsTarget].data[1].last_updated # Val(df).last_updated

\* C10: in the notebook, a run of the export cell with a form value that is
\* None, empty or all spaces leaves the filesystem unchanged; with any other
\* value it ends with the folder a directory and both files written, unless
\* an existing file stands where a directory is needed or an existing
\* directory where a file is to be written.
C10_WritesIffNonBlank ==
    [][(pc = "export" /\ mode = "edit" /\ pc' = "done") =>
          IF NonBlank(form.value)
          THEN IF err' = ""
               THEN /\ fs'[Folder].kind = "dir"
                    /\ fs'[KeywordsTarget] =
                           FileOf(KeywordsDocument(Val(df)))
                    /\ fs'[FunctionsTarget] =
                           FileOf(FunctionsDocument(Val(fn_dict)))
               ELSE \/ \E q \in Prefixes(Folder) : fs[q].kind = "file"
                    \/ fs[KeywordsTarget].kind = "dir"
                    \/ fs[FunctionsTarget].kind = "dir"
          ELSE fs' = fs /\ err' = err]_vars

\* C10, its case: a blank submission has just been handled after an earlier
\* submission wrote both files.
C10_Witness ==
    /\ pc = "done"
    /\ mode = "edit"
    /\ form.value = Some(<<" ">>)
    /\ \E p \in DOMAIN fs :
           fs[p] = FileOf(KeywordsDocument(Val(df)))

====
